---- MODULE Spec2Model ----
(***************************************************************************)
(* Model of the agent execution engine of src/utils/agent.py: the step     *)
(* controller (PLAN, ACTION, OBSERVE, OUTPUT), its two message memories,   *)
(* the tool dispatch of an ACTION batch and the caller's execute loop.     *)
(* Texts are sequences of string tokens; concatenation of strings is       *)
(* concatenation of token sequences.                                       *)
(***************************************************************************)
EXTENDS Integers, Sequences, FiniteSets, TLC

VARIABLES max_iterations, tools, response_format, memory_chat, memory_curr_execution,
          next_step, num_curr_iterations, phase, steps, chat_before, last,
          ntasks, start, trail, phase_b

vars == <<max_iterations, tools, response_format, memory_chat, memory_curr_execution,
          next_step, num_curr_iterations, phase, steps, chat_before, last,
          ntasks, start, trail, phase_b>>

----------------------------------------------------------------------------
(* Bounds of the model *)

MaxIter == 5

MaxBatchLoop == 1

MaxChatShort == 4

MaxIterTools == 3

MaxBatch == 2

MaxChatTools == 4

MaxIterMem == 3

MaxChat == 12

MaxTasks == 11

MaxSteps == 6

----------------------------------------------------------------------------
(* Texts and messages *)

description == <<"You are an analyst.">>

FailMsg == <<"An error occurred. Please try again.">>

plan_prompt == <<"WRITE WHAT YOU SHOULD DO NEXT:">>

system_message == <<"WORK ON WHAT YOU SHOULD DO NEXT:">>

step_check_prompt == <<"DO YOU HAVE ENOUGH INFORMATION TO COMPLETE THE TASK?">>

result_prompt == <<"ANSWER THE USER'S REQUEST.">>

Msg(role, content, calls, id) ==
  [role |-> role, content |-> content, tool_calls |-> calls, tool_call_id |-> id]

SystemMessage(content) == Msg("system", content, <<>>, "")

UserMessage(content) == Msg("user", content, <<>>, "")

AssistantMessage(content) == Msg("assistant", content, <<>>, "")

AssistantToolCalls(calls) == Msg("assistant", <<>>, calls, "")

ToolMessage(content, id) == Msg("tool", content, <<>>, id)

AgentStep(content) == [kind |-> "step", content |-> content]

AgentResult(content) == [kind |-> "result", content |-> content]

----------------------------------------------------------------------------
(* The collaborators: tools, tasks and the Driver's possible answers *)

Tool(name) == [name |-> name, result |-> "result of " \o name, err |-> name \o " failed"]

ToolSets == { <<Tool("echo")>>,
              <<Tool("echo"), Tool("search")>>,
              <<Tool("echo"), Tool("echo")>> }

Tasks == {"task"}

Inputs == {"", "info"}

GoodArgs == "{\"q\": \"x\"}"

BadArgs == "{\"q\": "

CallNames == {"echo", "nope"}

CallId(i) ==
  IF i = 1 THEN "call_1" ELSE IF i = 2 THEN "call_2" ELSE IF i = 3 THEN "call_3" ELSE "call_4"

ToolCall(name, args, i) == [name |-> name, args |-> args, id |-> CallId(i)]

Batches(max) ==
  UNION { { [i \in 1..n |-> ToolCall(f[i][1], f[i][2], i)] :
              f \in [1..n -> CallNames \X {GoodArgs, BadArgs}] } : n \in 1..max }

Raise == [kind |-> "raise", content |-> <<>>, tool_calls |-> <<>>]

TextResponse(content) == [kind |-> "text", content |-> content, tool_calls |-> <<>>]

CallsResponse(calls) == [kind |-> "calls", content |-> <<>>, tool_calls |-> calls]

(* no final-answer schema declared *)
NoFormat == "None"

Formats == {NoFormat, "DataSummary"}

(* a structured payload: the schema it is an instance of, then its fields *)
Payload(schema) == <<schema, "available=True summary='...' sources=[]">>

IsPayload(content) == Len(content) >= 1 /\ content[1] \in Formats \ {NoFormat}

(* the final answer the Driver generates under the declared response format *)
FinalAnswer ==
  IF response_format = NoFormat THEN <<"the answer">> ELSE Payload(response_format)

VerdictTrue == <<"{\"complete\": true}">>

VerdictFalse == <<"{\"complete\": false}">>

VerdictGarbage == <<"I think so">>

(* what the Driver may answer to the generation of handler h, with tool  *)
(* call batches of at most max calls                                     *)
Answers(max, h) ==
  CASE h = "plan"    -> {Raise, TextResponse(<<"the plan">>)}
    [] h = "action"  -> {Raise, TextResponse(<<"the work">>)}
                          \cup {CallsResponse(b) : b \in Batches(max)}
    [] h = "observe" -> {Raise, TextResponse(VerdictTrue), TextResponse(VerdictFalse),
                         TextResponse(VerdictGarbage)}
    [] h = "output"  -> {Raise, TextResponse(FinalAnswer)}

Responses(h) == Answers(MaxBatch, h)

LoopResponses(h) == Answers(MaxBatchLoop, h)

(* a Driver that never asks for a tool *)
PlainResponses(h) ==
  CASE h = "plan"    -> {Raise, TextResponse(<<"the plan">>)}
    [] h = "action"  -> {TextResponse(<<"the work">>)}
    [] h = "observe" -> {TextResponse(VerdictTrue), TextResponse(VerdictFalse)}
    [] h = "output"  -> {Raise, TextResponse(FinalAnswer)}

(* a Driver that never raises, never asks for a tool, never completes *)
SteadyResponses(h) ==
  CASE h = "plan"    -> {TextResponse(<<"the plan">>)}
    [] h = "action"  -> {TextResponse(<<"the work">>)}
    [] h = "observe" -> {TextResponse(VerdictFalse)}
    [] h = "output"  -> {TextResponse(FinalAnswer)}

(* the invocations a batch can lead to: call i against registered tool j *)
Invocations(calls) ==
  { p \in (1..Len(calls)) \X (1..Len(tools)) : tools[p[2]].name = calls[p[1]].name }

ToolOutcomes(calls) == [Invocations(calls) -> {"ok", "raise"}]

----------------------------------------------------------------------------
(* The agent's private state, as one record the handlers transform *)

AgentState == [chat |-> memory_chat, scratch |-> memory_curr_execution,
               next |-> next_step, num |-> num_curr_iterations]

(* what a handler hands back: the state it left, whether it raised, the     *)
(* step it returned, the Driver generations it made, the tools it invoked   *)
Returned(s, out, gens, invoked) ==
  [s |-> s, exc |-> FALSE, out |-> out, gens |-> gens, invoked |-> invoked]

Raised(s, gens, invoked) ==
  [s |-> s, exc |-> TRUE, out |-> [kind |-> "none", content |-> <<>>],
   gens |-> gens, invoked |-> invoked]

(* Agent.__init__: the description becomes the System message at index 0 *)
AgentInit == <<SystemMessage(description)>>

(* str() of a text is the text itself; str() of a structured payload is   *)
(* the text of its fields, no longer an instance of the schema            *)
Str(content) == IF IsPayload(content) THEN Tail(content) ELSE content

TaskText(task, input) ==
  IF input # "" THEN <<task, "SOME INFO YOU ARE GIVEN TO START THE TASK:", input>>
  ELSE <<task>>

(* exec_init also resetting the state a task starts from *)
exec_init_reset(s, task, input) ==
  [chat |-> Append(s.chat, UserMessage(TaskText(task, input))),
   scratch |-> <<>>, next |-> "plan", num |-> 0]

(* exec_init adding nothing to persistent memory *)
exec_init_silent(s, task, input) == s

exec_init(s, task, input) ==
  [s EXCEPT !.chat = Append(@, UserMessage(TaskText(task, input)))]

(* _plan recording the plan in persistent memory as well *)
_plan_persist(s, r) ==
  LET s1 == [s EXCEPT !.scratch = Append(@, SystemMessage(plan_prompt))]
  IN IF r.kind = "raise" THEN Raised(s1, 1, <<>>)
     ELSE Returned([s1 EXCEPT !.scratch = Append(@, AssistantMessage(r.content)),
                              !.chat = Append(@, AssistantMessage(r.content)),
                              !.next = "action"],
                   AgentStep(r.content), 1, <<>>)

(* _plan handing over to OBSERVE *)
_plan_skip(s, r) ==
  LET s1 == [s EXCEPT !.scratch = Append(@, SystemMessage(plan_prompt))]
  IN IF r.kind = "raise" THEN Raised(s1, 1, <<>>)
     ELSE Returned([s1 EXCEPT !.scratch = Append(@, AssistantMessage(r.content)),
                              !.next = "observe"],
                   AgentStep(r.content), 1, <<>>)

_plan(s, r) ==
  LET s1 == [s EXCEPT !.scratch = Append(@, SystemMessage(plan_prompt))]
  IN IF r.kind = "raise" THEN Raised(s1, 1, <<>>)
     ELSE Returned([s1 EXCEPT !.scratch = Append(@, AssistantMessage(r.content)),
                              !.next = "action"],
                   AgentStep(r.content), 1, <<>>)

(* json.loads(tool_call.args) raises on a malformed payload *)
JsonLoads(args) == IF args = GoodArgs THEN "ok" ELSE "raise"

(* the try block letting the tool's exception escape *)
Invoke_escape(call, i, j, o, acc) ==
  IF o[<<i, j>>] = "ok"
  THEN [acc EXCEPT !.no_match_flag = FALSE,
                   !.tool_messages = Append(@, ToolMessage(Str(<<tools[j].result>>), call.id)),
                   !.observations = @ \o <<"\n\n">> \o Str(<<tools[j].result>>),
                   !.invoked = Append(@, [call |-> i, tool |-> j, outcome |-> "ok"])]
  ELSE [acc EXCEPT !.no_match_flag = FALSE,
                   !.exc = TRUE,
                   !.invoked = Append(@, [call |-> i, tool |-> j, outcome |-> "raise"])]

(* the try block of the inner loop, for a tool whose name matches the call: *)
(* the tool runs; its result becomes a Tool message and an observation, its *)
(* exception only an observation                                            *)
Invoke(call, i, j, o, acc) ==
  IF o[<<i, j>>] = "ok"
  THEN [acc EXCEPT !.no_match_flag = FALSE,
                   !.tool_messages = Append(@, ToolMessage(Str(<<tools[j].result>>), call.id)),
                   !.observations = @ \o <<"\n\n">> \o Str(<<tools[j].result>>),
                   !.invoked = Append(@, [call |-> i, tool |-> j, outcome |-> "ok"])]
  ELSE [acc EXCEPT !.no_match_flag = FALSE,
                   !.observations = @ \o <<"\n\n", "Error: ", tools[j].err>>,
                   !.invoked = Append(@, [call |-> i, tool |-> j, outcome |-> "raise"])]

(* the inner loop of _action: one tool call against every registered tool *)
RECURSIVE RunTools(_, _, _, _, _)
RunTools(call, i, j, o, acc) ==
  IF j > Len(tools) THEN acc
  ELSE IF tools[j].name = call.name
       THEN RunTools(call, i, j + 1, o, Invoke(call, i, j, o, acc))
       ELSE RunTools(call, i, j + 1, o, acc)

(* the outer loop without the no-match check *)
RECURSIVE RunCalls_lenient(_, _, _, _)
RunCalls_lenient(calls, i, o, acc) ==
  IF i > Len(calls) THEN acc
  ELSE IF JsonLoads(calls[i].args) = "raise" THEN [acc EXCEPT !.exc = TRUE]
       ELSE RunCalls_lenient(calls, i + 1, o,
              RunTools(calls[i], i, 1, o, [acc EXCEPT !.no_match_flag = TRUE]))

(* the outer loop taking the calls of the batch from the last to the first *)
RECURSIVE RunCalls_backwards(_, _, _, _)
RunCalls_backwards(calls, i, o, acc) ==
  IF i > Len(calls) THEN acc
  ELSE LET k == Len(calls) + 1 - i
       IN IF JsonLoads(calls[k].args) = "raise" THEN [acc EXCEPT !.exc = TRUE]
          ELSE LET a == RunTools(calls[k], k, 1, o, [acc EXCEPT !.no_match_flag = TRUE])
               IN IF a.no_match_flag THEN [a EXCEPT !.exc = TRUE]
                  ELSE RunCalls_backwards(calls, i + 1, o, a)

(* the outer loop of _action: the calls of the batch, in the Driver's order *)
RECURSIVE RunCalls(_, _, _, _)
RunCalls(calls, i, o, acc) ==
  IF i > Len(calls) THEN acc
  ELSE IF JsonLoads(calls[i].args) = "raise" THEN [acc EXCEPT !.exc = TRUE]
       ELSE LET a == RunTools(calls[i], i, 1, o, [acc EXCEPT !.no_match_flag = TRUE])
            IN IF a.no_match_flag THEN [a EXCEPT !.exc = TRUE]
               ELSE RunCalls(calls, i + 1, o, a)

RECURSIVE ToolObserve(_, _)
ToolObserve(calls, i) ==
  IF i > Len(calls) THEN <<>>
  ELSE <<"Calling tool:", calls[i].name, "Parameters:", calls[i].args>>
         \o ToolObserve(calls, i + 1)

_action(s, r, o) ==
  LET s1 == [s EXCEPT !.scratch = Append(@, SystemMessage(system_message))]
  IN IF r.kind = "raise" THEN Raised(s1, 1, <<>>)
     ELSE IF r.tool_calls = <<>>
     THEN Returned([s1 EXCEPT !.scratch = Append(@, AssistantMessage(r.content)),
                              !.next = "observe"],
                   AgentStep(r.content), 1, <<>>)
     ELSE LET d == RunCalls(r.tool_calls, 1, o,
                            [exc |-> FALSE, no_match_flag |-> TRUE, tool_messages |-> <<>>,
                             observations |-> <<>>, invoked |-> <<>>])
          IN IF d.exc THEN Raised(s1, 1, d.invoked)
             ELSE Returned(
                    [s1 EXCEPT !.scratch = Append(@, AssistantToolCalls(r.tool_calls))
                                             \o d.tool_messages,
                               !.next = "observe"],
                    AgentStep(ToolObserve(r.tool_calls, 1) \o <<"Results:">> \o d.observations),
                    1, d.invoked)

(* json.loads(completed.content)["complete"] *)
ParseVerdict(content) ==
  IF content = VerdictTrue THEN "true"
  ELSE IF content = VerdictFalse THEN "false" ELSE "raise"

(* _observe taking the verdict the wrong way round *)
_observe_swapped(s, r) ==
  LET s1 == [s EXCEPT !.scratch = Append(@, SystemMessage(step_check_prompt))]
  IN IF r.kind = "raise" \/ ParseVerdict(r.content) = "raise" THEN Raised(s1, 1, <<>>)
     ELSE IF ParseVerdict(r.content) = "false"
     THEN Returned([s1 EXCEPT !.next = "output",
                              !.scratch = Append(@, AssistantMessage(<<"Completed Task.">>))],
                   AgentStep(<<"Completed Task.">>), 1, <<>>)
     ELSE Returned([s1 EXCEPT !.next = "plan",
                              !.scratch = Append(@, AssistantMessage(<<"Continuing Task...">>))],
                   AgentStep(<<"Continuing Task...">>), 1, <<>>)

_observe(s, r) ==
  LET s1 == [s EXCEPT !.scratch = Append(@, SystemMessage(step_check_prompt))]
  IN IF r.kind = "raise" \/ ParseVerdict(r.content) = "raise" THEN Raised(s1, 1, <<>>)
     ELSE IF ParseVerdict(r.content) = "true"
     THEN Returned([s1 EXCEPT !.next = "output",
                              !.scratch = Append(@, AssistantMessage(<<"Completed Task.">>))],
                   AgentStep(<<"Completed Task.">>), 1, <<>>)
     ELSE Returned([s1 EXCEPT !.next = "plan",
                              !.scratch = Append(@, AssistantMessage(<<"Continuing Task...">>))],
                   AgentStep(<<"Continuing Task...">>), 1, <<>>)

(* the eviction popping from the head of the list *)
Evict_head(chat) ==
  IF Len(chat) >= 10 THEN SubSeq(chat, 3, Len(chat)) ELSE chat

(* the eviction starting only above 10 messages *)
Evict_late(chat) ==
  IF Len(chat) >= 11 THEN <<chat[1]>> \o SubSeq(chat, 4, Len(chat)) ELSE chat

(* the eviction popping a single message *)
Evict_once(chat) ==
  IF Len(chat) >= 10 THEN <<chat[1]>> \o SubSeq(chat, 3, Len(chat)) ELSE chat

(* pop(1) twice, once persistent memory holds 10 messages or more *)
Evict(chat) ==
  IF Len(chat) >= 10 THEN <<chat[1]>> \o SubSeq(chat, 4, Len(chat)) ELSE chat

(* _output returning an intermediate step instead of the terminal result *)
_output_step(s, r, error) ==
  LET s1 == IF error THEN s
            ELSE [s EXCEPT !.scratch = Append(@, SystemMessage(result_prompt))]
      agent_response == IF error THEN FailMsg ELSE r.content
  IN IF ~error /\ r.kind = "raise" THEN Raised(s1, 1, <<>>)
     ELSE Returned([chat |-> Evict(Append(s1.chat, AssistantMessage(Str(agent_response)))),
                    scratch |-> <<>>, next |-> "plan", num |-> 0],
                   AgentStep(agent_response), IF error THEN 0 ELSE 1, <<>>)

(* _output appending the answer as it is, without str() *)
_output_raw(s, r, error) ==
  LET s1 == IF error THEN s
            ELSE [s EXCEPT !.scratch = Append(@, SystemMessage(result_prompt))]
      agent_response == IF error THEN FailMsg ELSE r.content
  IN IF ~error /\ r.kind = "raise" THEN Raised(s1, 1, <<>>)
     ELSE Returned([chat |-> Evict(Append(s1.chat, AssistantMessage(agent_response))),
                    scratch |-> <<>>, next |-> "plan", num |-> 0],
                   AgentResult(agent_response), IF error THEN 0 ELSE 1, <<>>)

(* _output forgetting to reset the state for the next task *)
_output_keep(s, r, error) ==
  LET s1 == IF error THEN s
            ELSE [s EXCEPT !.scratch = Append(@, SystemMessage(result_prompt))]
      agent_response == IF error THEN FailMsg ELSE r.content
  IN IF ~error /\ r.kind = "raise" THEN Raised(s1, 1, <<>>)
     ELSE Returned([s1 EXCEPT !.chat = Evict(Append(@, AssistantMessage(Str(agent_response))))],
                   AgentResult(agent_response), IF error THEN 0 ELSE 1, <<>>)

_output(s, r, error) ==
  LET s1 == IF error THEN s
            ELSE [s EXCEPT !.scratch = Append(@, SystemMessage(result_prompt))]
      agent_response == IF error THEN FailMsg ELSE r.content
  IN IF ~error /\ r.kind = "raise" THEN Raised(s1, 1, <<>>)
     ELSE Returned([chat |-> Evict(Append(s1.chat, AssistantMessage(Str(agent_response)))),
                    scratch |-> <<>>, next |-> "plan", num |-> 0],
                   AgentResult(agent_response), IF error THEN 0 ELSE 1, <<>>)

(* the budget check two iterations late *)
BudgetSpent_later(s) == s.num = max_iterations + 1

(* the budget check one iteration late *)
BudgetSpent_late(s) == s.num = max_iterations

(* the budget check of iterate *)
BudgetSpent(s) == s.num = max_iterations - 1

(* the handler the next advancement runs *)
Handler(s) == IF BudgetSpent(s) THEN "output" ELSE s.next

(* the try block taking the error variant of _output when the budget is spent *)
Try_giveup(s, r, o) ==
  IF BudgetSpent(s) THEN _output(s, r, TRUE)
  ELSE LET s1 == [s EXCEPT !.num = @ + 1]
       IN CASE s1.next = "plan"    -> _plan(s1, r)
            [] s1.next = "action"  -> _action(s1, r, o)
            [] s1.next = "observe" -> _observe(s1, r)
            [] s1.next = "output"  -> _output(s1, r, FALSE)

(* the try block leaving the counter alone *)
Try_uncounted(s, r, o) ==
  IF BudgetSpent(s) THEN _output(s, r, FALSE)
  ELSE CASE s.next = "plan"    -> _plan(s, r)
         [] s.next = "action"  -> _action(s, r, o)
         [] s.next = "observe" -> _observe(s, r)
         [] s.next = "output"  -> _output(s, r, FALSE)

(* the body of iterate's try block *)
Try(s, r, o) ==
  IF BudgetSpent(s) THEN _output(s, r, FALSE)
  ELSE LET s1 == [s EXCEPT !.num = @ + 1]
       IN CASE s1.next = "plan"    -> _plan(s1, r)
            [] s1.next = "action"  -> _action(s1, r, o)
            [] s1.next = "observe" -> _observe(s1, r)
            [] s1.next = "output"  -> _output(s1, r, FALSE)

(* the handler reporting the failure as an intermediate step *)
Except_continue(h, r) ==
  [h EXCEPT !.exc = TRUE, !.out = AgentStep(FailMsg)]

(* the handler forgetting error=True *)
Except_generate(h, r) ==
  LET e == _output(h.s, r, FALSE)
  IN [e EXCEPT !.exc = TRUE, !.gens = h.gens + e.gens, !.invoked = h.invoked]

(* except Exception: return self._output(error=True) *)
Except(h, r) ==
  LET e == _output(h.s, r, TRUE)
  IN [e EXCEPT !.exc = TRUE, !.gens = h.gens + e.gens, !.invoked = h.invoked]

(* iterate running the try block a second time before giving up *)
iterate_again(s, r, o) ==
  LET h == Try(s, r, o)
  IN IF h.exc
     THEN LET h2 == Try(h.s, r, o)
          IN IF h2.exc THEN Except([h2 EXCEPT !.gens = h.gens + h2.gens], r)
             ELSE [h2 EXCEPT !.gens = h.gens + h2.gens]
     ELSE h

iterate(s, r, o) ==
  LET h == Try(s, r, o)
  IN IF h.exc THEN Except(h, r) ELSE h

----------------------------------------------------------------------------
(* The state machine *)

NoLast == [ran |-> "none", forced |-> FALSE, error |-> FALSE, kind |-> "none",
           content |-> <<>>, resp |-> Raise, invoked |-> <<>>, added |-> <<>>, gens |-> 0,
           evicted |-> FALSE]

Start(iters, toolsets, formats) ==
  /\ max_iterations \in iters
  /\ tools \in toolsets
  /\ response_format \in formats
  /\ memory_chat = AgentInit
  /\ memory_curr_execution = <<>>
  /\ next_step = "plan"
  /\ num_curr_iterations = 0
  /\ phase = "idle"
  /\ steps = <<>>
  /\ chat_before = AgentInit
  /\ last = NoLast
  /\ ntasks = 0
  /\ start = [num |-> 0, next |-> "plan", scratch |-> <<>>]
  /\ trail = <<>>
  /\ phase_b = "idle"

(* what one advancement did: the call it belongs to, the handler it ran,  *)
(* whether the budget forced it, whether it raised, and the step it gave  *)
Entry(by, s, h) ==
  [by |-> by, ran |-> Handler(s), forced |-> BudgetSpent(s), error |-> h.exc,
   kind |-> h.out.kind, content |-> h.out.content, gens |-> h.gens]

(* execute(task, input): the task is added and the loop starts *)
Execute(cap, inputs) ==
  /\ phase # "running"
  /\ Len(memory_chat) < cap
  /\ ntasks < MaxTasks
  /\ \E task \in Tasks, input \in inputs :
       LET e == exec_init(AgentState, task, input)
       IN /\ memory_chat' = e.chat
          /\ memory_curr_execution' = e.scratch
          /\ next_step' = e.next
          /\ num_curr_iterations' = e.num
  /\ chat_before' = memory_chat
  /\ phase' = "running"
  /\ steps' = <<>>
  /\ last' = NoLast
  /\ ntasks' = ntasks + 1
  /\ start' = [num |-> num_curr_iterations, next |-> next_step,
               scratch |-> memory_curr_execution]
  /\ trail' = <<>>
  /\ UNCHANGED <<max_iterations, tools, response_format, phase_b>>

(* one advancement of the loop: iterate() and the step handed to the caller *)
Iterate(answers) ==
  /\ phase = "running"
  /\ \E r \in answers :
       \E o \in ToolOutcomes(r.tool_calls) :
         LET h == iterate(AgentState, r, o)
         IN /\ memory_chat' = h.s.chat
            /\ memory_curr_execution' = h.s.scratch
            /\ next_step' = h.s.next
            /\ num_curr_iterations' = h.s.num
            /\ phase' = IF h.out.kind = "result" THEN "done" ELSE "running"
            /\ steps' = Append(steps, h.out.kind)
            /\ trail' = Append(trail, Entry("a", AgentState, h))
            /\ last' = [ran |-> Handler(AgentState), forced |-> BudgetSpent(AgentState),
                        error |-> h.exc, kind |-> h.out.kind, content |-> h.out.content,
                        resp |-> r, invoked |-> h.invoked,
                        added |-> IF h.out.kind = "result" THEN <<>>
                                  ELSE SubSeq(h.s.scratch, Len(memory_curr_execution) + 1,
                                              Len(h.s.scratch)),
                        gens |-> h.gens,
                        evicted |-> Len(h.s.chat) < Len(memory_chat)]
  /\ UNCHANGED <<max_iterations, tools, response_format, chat_before,
                 ntasks, start, phase_b>>

(* the caller stops pulling after an intermediate step *)
Abandon ==
  /\ phase = "running"
  /\ Len(steps) >= 1
  /\ phase' = "abandoned"
  /\ UNCHANGED <<max_iterations, tools, response_format, memory_chat,
                 memory_curr_execution, next_step,
                 num_curr_iterations, steps, chat_before, last,
                 ntasks, start, trail, phase_b>>

(* a second execute(task, input) on the same agent while the first call *)
(* is still in flight                                                  *)
ExecuteB(cap, inputs) ==
  /\ phase = "running"
  /\ phase_b # "running"
  /\ Len(memory_chat) < cap
  /\ ntasks < MaxTasks
  /\ \E task \in Tasks, input \in inputs :
       LET e == exec_init(AgentState, task, input)
       IN /\ memory_chat' = e.chat
          /\ memory_curr_execution' = e.scratch
          /\ next_step' = e.next
          /\ num_curr_iterations' = e.num
  /\ phase_b' = "running"
  /\ ntasks' = ntasks + 1
  /\ UNCHANGED <<max_iterations, tools, response_format, phase, steps, chat_before, last,
                 start, trail>>

(* one advancement pulled by the second call *)
IterateB(answers) ==
  /\ phase_b = "running"
  /\ \E r \in answers :
       \E o \in ToolOutcomes(r.tool_calls) :
         LET h == iterate(AgentState, r, o)
         IN /\ memory_chat' = h.s.chat
            /\ memory_curr_execution' = h.s.scratch
            /\ next_step' = h.s.next
            /\ num_curr_iterations' = h.s.num
            /\ phase_b' = IF h.out.kind = "result" THEN "done" ELSE "running"
            /\ trail' = Append(trail, Entry("b", AgentState, h))
  /\ UNCHANGED <<max_iterations, tools, response_format, phase, steps, chat_before, last,
                 ntasks, start>>

(* the control loop: any iteration cap, any Driver, a short conversation *)
Init == Start(1..MaxIter, ToolSets, {NoFormat})

Next == Execute(MaxChatShort, Inputs) \/ Iterate(LoopResponses(Handler(AgentState))) \/ Abandon

Spec == Init /\ [][Next]_vars

(* the tool dispatch: batches of several calls, a small iteration cap *)
InitTools == Start(1..MaxIterTools, ToolSets, {NoFormat})

NextTools == Execute(MaxChatTools, {""}) \/ Iterate(Responses(Handler(AgentState))) \/ Abandon

SpecTools == InitTools /\ [][NextTools]_vars

(* a long conversation with a Driver that never asks for a tool *)
InitMem == Start(1..MaxIterMem, {<<Tool("echo")>>}, Formats)

NextMem == Execute(MaxChat, {""}) \/ Iterate(PlainResponses(Handler(AgentState))) \/ Abandon

SpecMem == InitMem /\ [][NextMem]_vars

(* a caller that runs every task to its terminal step *)
InitDone == Start(1..MaxIterMem, {<<Tool("echo")>>}, {NoFormat})

NextDone == Execute(MaxChat, {""}) \/ Iterate(PlainResponses(Handler(AgentState)))

SpecDone == InitDone /\ [][NextDone]_vars

(* tasks started with and without a seed input, over a long conversation *)
InitStart == Start({MaxIterMem}, {<<Tool("echo")>>}, {NoFormat})

NextStart == Execute(MaxChat, Inputs) \/ Iterate(SteadyResponses(Handler(AgentState))) \/ Abandon

SpecStart == InitStart /\ [][NextStart]_vars

(* an agent constructed with an iteration cap of 1 or less; the steps of *)
(* one task are followed up to MaxSteps                                 *)
InitZero == Start((1 - MaxIterTools)..1, {<<Tool("echo")>>}, {NoFormat})

NextZero ==
  \/ Execute(MaxChatShort, {""})
  \/ (Len(steps) < MaxSteps /\ Iterate(PlainResponses(Handler(AgentState))))

SpecZero == InitZero /\ [][NextZero]_vars

(* a Driver whose every generation raises *)
InitRaise == Start(1..MaxIter, ToolSets, Formats)

NextRaise == Execute(MaxChat, Inputs) \/ Iterate({Raise})

SpecRaise == InitRaise /\ [][NextRaise]_vars

(* two execute calls on one agent, their advancements interleaved *)
InitTwo == Start(1..MaxIter, {<<Tool("echo")>>}, {NoFormat})

NextTwo ==
  \/ Execute(MaxChatShort, {""})
  \/ Iterate(PlainResponses(Handler(AgentState)))
  \/ ExecuteB(MaxChatShort, {""})
  \/ IterateB(PlainResponses(Handler(AgentState)))

SpecTwo == InitTwo /\ [][NextTwo]_vars

----------------------------------------------------------------------------
(* Termination and the shape of the step stream *)

(* C1: for max_iterations >= 1 and any behaviour of the Driver and the     *)
(* tools, a started task reaches its terminal step after at most           *)
(* max_iterations advancements: no task makes more than max_iterations     *)
(* advancements, and a task still running has made fewer.                  *)
C1_TerminalWithinBudget ==
  /\ Len(steps) <= max_iterations
  /\ phase = "running" => Len(steps) < max_iterations

(* a task that used its whole budget and ended on the last advancement *)
C1_Witness ==
  /\ phase = "done"
  /\ max_iterations >= 3
  /\ Len(steps) = max_iterations

(* C2: an advancement in which an exception reaches iterate's handler      *)
(* (a Driver call that raises, an unparseable verdict, a failed tool       *)
(* dispatch) returns, in that same advancement, a terminal step whose      *)
(* content is the fixed failure message; nothing is propagated.            *)
C2_ErrorBecomesFailureStep ==
  last.error => /\ last.kind = "result"
                /\ last.content = FailMsg
                /\ phase = "done"

(* an OBSERVE advancement whose verdict does not parse *)
C2_Witness ==
  /\ last.error
  /\ last.ran = "observe"
  /\ last.resp = TextResponse(VerdictGarbage)
  /\ last.content = FailMsg

(* C3: every execute yields at least one step by the time it ends, exactly *)
(* one of its steps is a terminal AgentResult, that step is the last one   *)
(* and it is the step of the OUTPUT handler; every step before it is an    *)
(* intermediate AgentStep.                                                 *)
C3_OneTerminalStepLast ==
  /\ \A i \in 1..Len(steps) :
       /\ steps[i] \in {"step", "result"}
       /\ steps[i] = "result" <=> (i = Len(steps) /\ phase = "done")
  /\ phase = "done" => Len(steps) >= 1
  /\ (last.ran = "output" \/ last.error) => last.kind = "result"

(* a task that ended normally after PLAN, ACTION and OBSERVE steps *)
C3_Witness ==
  /\ phase = "done"
  /\ steps = <<"step", "step", "step", "result">>
  /\ ~last.error /\ ~last.forced

----------------------------------------------------------------------------
(* Persistent memory *)

(* C4: when the caller stops pulling after an intermediate step,           *)
(* persistent memory is, message for message, what it was before execute   *)
(* was called.                                                             *)
C4_AbandonLeavesChatUnchanged ==
  phase = "abandoned" => memory_chat = chat_before

(* C5: over all sequences of tasks, run to the end or abandoned, the       *)
(* length of persistent memory never exceeds 11.                           *)
C5_ChatLengthAtMostEleven == Len(memory_chat) <= 11

(* C6: persistent memory is never empty and its first element is the       *)
(* System message holding the agent's description, also right after an     *)
(* eviction.                                                               *)
C6_SystemMessageFirst ==
  /\ Len(memory_chat) >= 1
  /\ memory_chat[1] = SystemMessage(description)

(* a terminal step whose eviction removed two messages *)
C6_Witness ==
  /\ phase = "done"
  /\ last.evicted
  /\ memory_chat[1] = SystemMessage(description)

(* one System message, then User and Assistant messages in turn *)
Alternating(chat) ==
  /\ Len(chat) % 2 = 1
  /\ chat[1].role = "system"
  /\ \A i \in 2..Len(chat) : chat[i].role = IF i % 2 = 0 THEN "user" ELSE "assistant"

(* C7: whenever an execute call begins, persistent memory is one System    *)
(* message followed by alternating User/Assistant messages, also after     *)
(* calls the caller abandoned.                                             *)
C7_ChatAlternatesAtExecute ==
  phase # "running" => Alternating(memory_chat)

----------------------------------------------------------------------------
(* Tool dispatch *)

Registered(name) == \E j \in 1..Len(tools) : tools[j].name = name

ToolMessagesFor(msgs, id) ==
  { k \in 1..Len(msgs) : msgs[k].role = "tool" /\ msgs[k].tool_call_id = id }

Contains(text, a, b) == \E k \in 1..(Len(text) - 1) : text[k] = a /\ text[k + 1] = b

SomeToolRaised == \E k \in 1..Len(last.invoked) : last.invoked[k].outcome = "raise"

(* C8: an ACTION step whose Driver response holds tool calls appends, for  *)
(* every call that names a registered tool, exactly one Tool message with  *)
(* that call's correlation id to scratch memory.                           *)
C8_OneToolMessagePerCall ==
  (last.ran = "action" /\ last.kind = "step" /\ last.resp.kind = "calls") =>
    \A i \in 1..Len(last.resp.tool_calls) :
      Registered(last.resp.tool_calls[i].name) =>
        Cardinality(ToolMessagesFor(last.added, last.resp.tool_calls[i].id)) = 1

(* C9: a tool invocation that raises leaves in scratch memory a Tool       *)
(* message whose content is "Error: " followed by the failure description  *)
(* and whose correlation id is that of the call.                           *)
C9_RaisingToolLeavesToolMessage ==
  (last.ran = "action" /\ last.kind = "step") =>
    \A k \in 1..Len(last.invoked) :
      last.invoked[k].outcome = "raise" =>
        \E m \in 1..Len(memory_curr_execution) :
          /\ memory_curr_execution[m].role = "tool"
          /\ memory_curr_execution[m].content =
               <<"Error: ", tools[last.invoked[k].tool].err>>
          /\ memory_curr_execution[m].tool_call_id =
               last.resp.tool_calls[last.invoked[k].call].id

(* the step an ACTION advancement returns when a tool raised and the task  *)
(* goes on                                                                 *)
RaiseSurfaced ==
  /\ last.kind = "step"
  /\ next_step = "observe"
  /\ \A k \in 1..Len(last.invoked) :
       last.invoked[k].outcome = "raise" =>
         Contains(last.content, "Error: ", tools[last.invoked[k].tool].err)

(* C10 as stated: an ACTION advancement in which a tool invocation raised  *)
(* returns an intermediate step, the next state is OBSERVE and the step    *)
(* text holds "Error: " followed by the failure description.               *)
C10_RaisingToolNeverAborts ==
  (last.ran = "action" /\ SomeToolRaised) => RaiseSurfaced

(* every call of the batch has arguments that parse and names a tool *)
Dispatchable(calls) ==
  \A i \in 1..Len(calls) : JsonLoads(calls[i].args) = "ok" /\ Registered(calls[i].name)

(* C10 amended: the same, for a batch in which every call has parseable    *)
(* arguments and names a registered tool.                                  *)
C10_RaisingToolSurfaces ==
  (last.ran = "action" /\ SomeToolRaised /\ Dispatchable(last.resp.tool_calls))
    => RaiseSurfaced

(* a batch of two calls, the first tool raising, the second returning *)
C10_Witness ==
  /\ last.ran = "action"
  /\ Len(last.invoked) = 2
  /\ last.invoked[1].outcome = "raise"
  /\ last.invoked[2].outcome = "ok"
  /\ last.invoked[2].call = 2
  /\ RaiseSurfaced

(* some call of the batch names no registered tool *)
SomeCallUnmatched(calls) == \E i \in 1..Len(calls) : ~Registered(calls[i].name)

(* C11: an ACTION advancement whose batch holds a call naming no           *)
(* registered tool aborts the task: it returns the terminal step with the  *)
(* fixed failure message, and the task produces no further step.           *)
C11_UnmatchedCallAborts ==
  (last.ran = "action" /\ SomeCallUnmatched(last.resp.tool_calls)) =>
    /\ last.error
    /\ last.kind = "result"
    /\ last.content = FailMsg
    /\ phase = "done"
    /\ steps[Len(steps)] = "result"

(* a batch whose first call ran its tool and whose second matches nothing *)
C11_Witness ==
  /\ last.ran = "action"
  /\ Len(last.resp.tool_calls) = 2
  /\ Registered(last.resp.tool_calls[1].name)
  /\ ~Registered(last.resp.tool_calls[2].name)
  /\ Len(last.invoked) >= 1
  /\ last.content = FailMsg
  /\ phase = "done"

----------------------------------------------------------------------------
(* Budget, counter and the state a task starts in *)

TaskStarts == phase = "running" /\ steps = <<>>

(* C13: at the start of every task the controller state is PLAN and the    *)
(* iteration counter is 0, also after abandoned calls.                     *)
C13_TaskStartsInPlanAtZero ==
  TaskStarts => (next_step = "plan" /\ num_curr_iterations = 0)

(* C14: scratch memory is empty at the start of every task, so that no     *)
(* message of an earlier task is sent to the Driver during a later one,    *)
(* also after abandoned calls.                                             *)
C14_ScratchEmptyAtTaskStart ==
  TaskStarts => memory_curr_execution = <<>>

(* C15: with max_iterations >= 1 the iteration counter stays within        *)
(* 0..max_iterations.                                                      *)
C15_CounterWithinCap ==
  num_curr_iterations >= 0 /\ num_curr_iterations <= max_iterations

(* a running task whose counter stands right below the cap *)
C15_Witness ==
  /\ phase = "running"
  /\ max_iterations >= 3
  /\ num_curr_iterations = max_iterations - 1

----------------------------------------------------------------------------
(* The final answer *)

MatchesSchema(content) == IsPayload(content) /\ content[1] = response_format

(* C16: when a final-answer schema is declared, the content of every       *)
(* task's terminal step is a structured payload matching that schema, on   *)
(* every path by which the task can end.                                   *)
C16_TerminalContentMatchesSchema ==
  (response_format # NoFormat /\ phase = "done") => MatchesSchema(last.content)

----------------------------------------------------------------------------
(* The length of persistent memory over completed tasks *)

Min(a, b) == IF a <= b THEN a ELSE b

(* C17: starting from a fresh agent, after k tasks have each been run to   *)
(* their terminal step persistent memory has length min(2k+1, 9): 3, 5, 7, *)
(* 9 after the first four tasks; the terminal step of the fifth task and   *)
(* of every later one evicts, and the length stays 9.                      *)
C17_ChatLengthAfterTasks ==
  phase # "running" =>
    /\ Len(memory_chat) = Min(2 * ntasks + 1, 9)
    /\ (phase = "done" => (last.evicted <=> ntasks >= 5))

C17_Witness ==
  /\ phase = "done" /\ ntasks = 6
  /\ Len(memory_chat) = 9 /\ last.evicted

----------------------------------------------------------------------------
(* The steps of one task *)

IntermediateSteps == {i \in 1..Len(steps) : steps[i] = "step"}

NothingRaised == \A i \in 1..Len(trail) : ~trail[i].error

Completed(e) == e.ran = "observe" /\ e.kind = "step" /\ e.content = <<"Completed Task.">>

NeverCompleted == \A i \in 1..Len(trail) : ~Completed(trail[i])

(* C18: with iteration cap N >= 1, a task that starts with counter 0 never *)
(* produces more than N-1 intermediate steps; when the Driver never        *)
(* signals completion and nothing raises, its steps are exactly N-1        *)
(* intermediate steps followed immediately by the budget-forced terminal   *)
(* step.                                                                   *)
C18_StepsWithinBudget ==
  start.num = 0 =>
    /\ Cardinality(IntermediateSteps) <= max_iterations - 1
    /\ (phase = "done" /\ NothingRaised /\ NeverCompleted) =>
         /\ Len(steps) = max_iterations
         /\ \A i \in 1..(max_iterations - 1) : steps[i] = "step"
         /\ steps[max_iterations] = "result"
         /\ trail[max_iterations].forced

C18_Witness ==
  /\ max_iterations = 2 /\ start.num = 0 /\ phase = "done"
  /\ NothingRaised /\ NeverCompleted
  /\ steps = <<"step", "result">>
  /\ trail[1].ran = "plan" /\ trail[2].forced

Following(ran) ==
  CASE ran = "plan"    -> "action"
    [] ran = "action"  -> "observe"
    [] ran = "observe" -> "plan"
    [] OTHER           -> "none"

Continuing(e) == e.ran = "observe" /\ e.kind = "step" /\ e.content = <<"Continuing Task...">>

(* C19: within one task that starts in PLAN, the intermediate steps come   *)
(* in the cyclic order PLAN, ACTION, OBSERVE: the first is a PLAN step,   *)
(* the intermediate step after a PLAN step is an ACTION step, after an    *)
(* ACTION step an OBSERVE step, after an OBSERVE step a PLAN step; and a  *)
(* terminal step caused neither by budget exhaustion nor by an exception  *)
(* is immediately preceded by an OBSERVE step that emitted                *)
(* "Completed Task.".                                                     *)
C19_CyclicOrder ==
  start.next = "plan" =>
    /\ (Len(trail) >= 1 /\ trail[1].kind = "step") => trail[1].ran = "plan"
    /\ \A i \in 1..(Len(trail) - 1) :
         /\ trail[i+1].kind = "step" => trail[i+1].ran = Following(trail[i].ran)
         /\ (~trail[i+1].forced /\ ~Completed(trail[i])) =>
              trail[i+1].ran = Following(trail[i].ran)
    /\ \A i \in 1..Len(trail) :
         (trail[i].kind = "result" /\ ~trail[i].forced /\ ~trail[i].error) =>
           /\ i >= 2 /\ Completed(trail[i-1])
           /\ trail[i].ran = "output"

C19_Witness ==
  /\ start.next = "plan" /\ phase = "done" /\ Len(trail) = 4
  /\ trail[1].ran = "plan" /\ trail[2].ran = "action"
  /\ trail[2].kind = "step" /\ Completed(trail[3])
  /\ trail[4].ran = "output" /\ ~trail[4].forced /\ ~trail[4].error
  /\ trail[4].content = <<"the answer">>

----------------------------------------------------------------------------
(* Two calls in flight on one agent *)

ConsecutiveUsers(chat) ==
  \E i \in 1..(Len(chat) - 1) : chat[i].role = "user" /\ chat[i+1].role = "user"

TerminalOfB == Len(trail) >= 1 /\ trail[Len(trail)].by = "b" /\ trail[Len(trail)].kind = "result"

(* C20: interleaving the advancements of two execute calls on one agent   *)
(* is unsafe: while both calls are in flight persistent memory holds two  *)
(* consecutive User messages, and the terminal step of one call leaves    *)
(* the other, still in flight, with its scratch messages cleared and its  *)
(* counter and next step reset.                                           *)
C20_InterleavingUnsafe ==
  /\ (phase = "running" /\ phase_b = "running") => ConsecutiveUsers(memory_chat)
  /\ (phase = "running" /\ TerminalOfB) =>
       /\ memory_curr_execution = <<>>
       /\ num_curr_iterations = 0
       /\ next_step = "plan"

C20_Witness ==
  /\ phase = "running" /\ steps = <<"step", "step">>
  /\ phase_b = "done" /\ TerminalOfB
  /\ trail[1].by = "a" /\ trail[2].by = "a" /\ trail[2].ran = "action"
  /\ ConsecutiveUsers(memory_chat)
  /\ memory_curr_execution = <<>> /\ num_curr_iterations = 0 /\ next_step = "plan"

----------------------------------------------------------------------------
(* What the terminal step leaves behind *)

(* C21: right after any advancement that returns a terminal step (normal  *)
(* completion, budget-forced or error) scratch memory is empty, the       *)
(* iteration counter is 0 and the next step is PLAN.                      *)
C21_TerminalStepResets ==
  (phase = "done" /\ last.kind = "result") =>
    /\ memory_curr_execution = <<>>
    /\ num_curr_iterations = 0
    /\ next_step = "plan"

C21_Witness ==
  /\ phase = "done" /\ steps = <<"step", "step", "result">>
  /\ last.ran = "observe" /\ last.error /\ ~last.forced
  /\ memory_curr_execution = <<>> /\ num_curr_iterations = 0 /\ next_step = "plan"

TaskMessages == {UserMessage(TaskText(task, input)) : task \in Tasks, input \in Inputs}

(* C22: a task run to its terminal step appends to persistent memory      *)
(* exactly one User message (the task) and exactly one Assistant message  *)
(* whose content is the string form of the terminal step's content (the   *)
(* failure text on the error path); right after the terminal step that    *)
(* Assistant message is the last message, also when an eviction happened. *)
C22_TaskAppendsUserAndAnswer ==
  phase = "done" =>
    LET n == Len(memory_chat)
    IN /\ n >= 3
       /\ memory_chat[n-1] \in TaskMessages
       /\ memory_chat[n] = AssistantMessage(Str(last.content))
       /\ ~IsPayload(memory_chat[n].content)
       /\ last.error => memory_chat[n].content = FailMsg
       /\ IF last.evicted
          THEN /\ n = Len(chat_before) /\ Len(chat_before) >= 8
               /\ SubSeq(memory_chat, 2, n - 2) = SubSeq(chat_before, 4, Len(chat_before))
          ELSE memory_chat = chat_before \o <<memory_chat[n-1], memory_chat[n]>>

C22_Witness ==
  /\ phase = "done" /\ last.evicted /\ ~last.error
  /\ IsPayload(last.content)
  /\ memory_chat[Len(memory_chat)] = AssistantMessage(Tail(last.content))
  /\ memory_chat[Len(memory_chat) - 1] \in TaskMessages

----------------------------------------------------------------------------
(* What the handlers change and what they leave alone *)

(* C23: starting a task (exec_init) appends exactly one User message with *)
(* the task text (and the seed input under the fixed preamble when one is *)
(* given) to the end of persistent memory, evicts nothing, and leaves     *)
(* scratch memory, the next step and the iteration counter unchanged.     *)
C23_ExecInitFrame ==
  [][(phase # "running" /\ phase' = "running") =>
       /\ memory_chat' \in {Append(memory_chat, u) : u \in TaskMessages}
       /\ UNCHANGED <<memory_curr_execution, next_step, num_curr_iterations>>]_vars

C23_Witness ==
  /\ TaskStarts /\ Len(chat_before) = 9
  /\ memory_chat = Append(chat_before,
                          UserMessage(<<"task", "SOME INFO YOU ARE GIVEN TO START THE TASK:",
                                        "info">>))
  /\ memory_curr_execution # <<>> /\ memory_curr_execution = start.scratch
  /\ num_curr_iterations = 1 /\ next_step = "action"

C25_ObserveFollowsVerdict ==
  last.ran = "observe" =>
    LET verdict == IF last.resp.kind = "raise" THEN "raise"
                   ELSE ParseVerdict(last.resp.content)
        text == IF verdict = "true" THEN <<"Completed Task.">> ELSE <<"Continuing Task...">>
    IN IF verdict = "raise"
       THEN last.kind = "result" /\ last.error /\ last.content = FailMsg
       ELSE /\ last.kind = "step" /\ ~last.error
            /\ last.content = text
            /\ last.added = <<SystemMessage(step_check_prompt), AssistantMessage(text)>>
            /\ memory_curr_execution[Len(memory_curr_execution)] = AssistantMessage(text)
            /\ next_step = IF verdict = "true" THEN "output" ELSE "plan"

C25_Witness ==
  /\ last.ran = "observe" /\ last.resp.content = VerdictTrue
  /\ last.kind = "step" /\ last.content = <<"Completed Task.">>
  /\ next_step = "output" /\ phase = "running"

----------------------------------------------------------------------------
(* The order of the tool invocations of one batch *)

(* the first call of the batch at which _action raises: malformed         *)
(* arguments or no registered tool of that name                           *)
RECURSIVE FirstFailing(_, _)
FirstFailing(calls, i) ==
  IF i > Len(calls) THEN i
  ELSE IF JsonLoads(calls[i].args) = "raise" \/ ~Registered(calls[i].name) THEN i
       ELSE FirstFailing(calls, i + 1)

InOrder(invoked) ==
  \A k \in 1..(Len(invoked) - 1) :
    \/ invoked[k].call < invoked[k+1].call
    \/ invoked[k].call = invoked[k+1].call /\ invoked[k].tool < invoked[k+1].tool

(* C26: the tools of one ACTION batch are invoked one at a time in the    *)
(* order the Driver returned the calls, all of them before the step is    *)
(* emitted; when a call of the batch matches no registered tool, the      *)
(* tools of the calls before it have been invoked and the tools of the    *)
(* calls after it never are.                                              *)
C26_ToolsInvokedInCallOrder ==
  (last.ran = "action" /\ last.resp.tool_calls # <<>>) =>
    LET calls == last.resp.tool_calls
        stop == FirstFailing(calls, 1)
    IN /\ InOrder(last.invoked)
       /\ {<<last.invoked[k].call, last.invoked[k].tool>> : k \in 1..Len(last.invoked)}
            = {p \in Invocations(calls) : p[1] < stop}
       /\ Len(last.invoked) = Cardinality({p \in Invocations(calls) : p[1] < stop})
       /\ last.kind = "step" <=> stop = Len(calls) + 1

C26_Witness ==
  /\ last.ran = "action" /\ Len(tools) = 2
  /\ Len(last.resp.tool_calls) = 2
  /\ last.resp.tool_calls[1].name = "echo" /\ last.resp.tool_calls[1].args = GoodArgs
  /\ last.resp.tool_calls[2].name = "echo" /\ last.resp.tool_calls[2].args = GoodArgs
  /\ Len(last.invoked) >= 3
  /\ last.invoked[1].call = 1 /\ last.invoked[Len(last.invoked)].call = 2
  /\ last.kind = "step"

----------------------------------------------------------------------------
(* The Driver generations of one task *)

RECURSIVE Generations(_, _)
Generations(t, i) == IF i > Len(t) THEN 0 ELSE t[i].gens + Generations(t, i + 1)

(* C27: for max_iterations >= 1 the Driver generate calls made for one    *)
(* task are at most max_iterations: every advancement makes at most one,  *)
(* and the error terminal step makes none of its own.                     *)
C27_GenerationsWithinCap ==
  /\ Generations(trail, 1) <= max_iterations
  /\ \A i \in 1..Len(trail) : trail[i].gens <= 1
  /\ (last.kind = "result" /\ last.error) => last.gens = 1

C27_Witness ==
  /\ phase = "done" /\ max_iterations = 3 /\ start.num = 0
  /\ Len(trail) = 3 /\ Generations(trail, 1) = 3
  /\ last.error /\ last.forced

----------------------------------------------------------------------------
(* The frame of the intermediate steps *)

(* C28: a PLAN, ACTION or OBSERVE advancement that returns an             *)
(* intermediate step never modifies persistent memory: it only appends    *)
(* to scratch memory, sets the next step and increments the iteration     *)
(* counter.                                                               *)
C28_IntermediateStepFrame ==
  [][(steps' = Append(steps, "step")) =>
       /\ last'.ran \in {"plan", "action", "observe"}
       /\ memory_chat' = memory_chat
       /\ Len(last'.added) >= 2
       /\ memory_curr_execution' = memory_curr_execution \o last'.added
       /\ num_curr_iterations' = num_curr_iterations + 1
       /\ next_step' \in {"plan", "action", "observe", "output"}]_vars

C28_Witness ==
  /\ phase = "running" /\ steps = <<"step", "step">>
  /\ last.ran = "action" /\ last.kind = "step" /\ Len(last.invoked) >= 1
  /\ Len(last.added) >= 3
  /\ memory_chat = Append(chat_before, memory_chat[Len(memory_chat)])
  /\ num_curr_iterations = 2

----------------------------------------------------------------------------
(* Termination for any iteration cap *)

(* C29: the termination guarantee does not depend on the value of the     *)
(* iteration cap: also with max_iterations <= 0 every task reaches its    *)
(* terminal step within finitely many advancements, whatever the Driver   *)
(* answers, a Driver that never signals completion included: under such a *)
(* Driver a task that has made MaxSteps advancements has reached its      *)
(* terminal step.                                                         *)
C29_TerminatesForAnyCap ==
  (Len(steps) >= MaxSteps /\ NeverCompleted) => phase # "running"

----------------------------------------------------------------------------
(* A Driver that always raises *)

(* C30: if every Driver generate call raises, each task still ends after  *)
(* exactly one advancement, for every max_iterations >= 1: the only step  *)
(* produced is the terminal failure step, and persistent memory gains     *)
(* exactly the task's User message and one Assistant message with the     *)
(* failure text.                                                          *)
C30_RaisingDriverEndsAtOnce ==
  LET n == Len(memory_chat)
  IN /\ phase = "running" => steps = <<>>
     /\ phase = "done" =>
          /\ steps = <<"result">>
          /\ last.error /\ last.content = FailMsg /\ last.gens = 1
          /\ memory_chat[n-1] \in TaskMessages
          /\ memory_chat[n] = AssistantMessage(FailMsg)
          /\ IF last.evicted
             THEN SubSeq(memory_chat, 1, n - 2)
                    = <<chat_before[1]>> \o SubSeq(chat_before, 4, Len(chat_before))
             ELSE SubSeq(memory_chat, 1, n - 2) = chat_before

C30_Witness ==
  /\ phase = "done" /\ max_iterations = 1 /\ steps = <<"result">>
  /\ last.forced /\ last.error /\ last.resp = Raise
  /\ memory_chat = chat_before \o <<UserMessage(<<"task">>), AssistantMessage(FailMsg)>>

====
